---- MODULE Spec2Model ----
(***************************************************************************)
(* Model of src/h.py: the personal macro- and micronutrient estimator.     *)
(*                                                                         *)
(* Python floats are modelled as exact rationals held in scaled integers:  *)
(*   weight, height        quarters of a kg / cm      (70 kg  = 280)       *)
(*   age                   years                                           *)
(*   bmr                   sixteenths of a kcal       (1 kcal = 16)        *)
(*   activity factor       fortieths                  (1.375  = 55)        *)
(*   goal multiplier       twentieths                 (0.85   = 17)        *)
(*   tdee                  1/12800 kcal  (= 16 * 40 * 20)                  *)
(*   protein_g_per_day     tenths of a gram           (56.0 g = 560)       *)
(*   protein_g_per_kg      hundredths of a g/kg       (0.8    = 80)        *)
(*   fat_kcal, carbs_kcal  1/128000 kcal (tdee unit / 10)                  *)
(*   fat_g                 1/1152000 g   (fat_kcal unit / 9)               *)
(*   carbs_g               1/512000 g    (carbs_kcal unit / 4)             *)
(*   nutrient amounts      tenths of the nutrient's unit (1.2 mg = 12)     *)
(* The inputs are drawn from grids of quarters, on which the double        *)
(* arithmetic of calc_bmr is exact.                                        *)
(***************************************************************************)
EXTENDS Integers, Sequences, FiniteSets, TLC

VARIABLES pc, user, bmr, tdee, macros, micro, printed

vars == <<pc, user, bmr, tdee, macros, micro, printed>>

(* The value of a local that has not been assigned yet. *)
None == "None"

\* ------------------------------------------------------------------ bounds

MaxAgeSteps == 1
MaxWeightSteps == 1
MaxHeightSteps == 1
MaxTdeeSteps == 2
MaxProteinSteps == 3

(* age in years *)
Ages == {1} \cup {30 * k : k \in 1..MaxAgeSteps}

(* weight in quarters of a kg: 0.25, 70.25, 70.5 and multiples of 70 *)
Weights == {1, 281, 282} \cup {280 * k : k \in 1..MaxWeightSteps}

(* height in quarters of a cm: 0.25 and multiples of 175 *)
Heights == {1} \cup {700 * k : k \in 1..MaxHeightSteps}

(* "other" stands for every string that is neither "male" nor "female" *)
SexValues == {"male", "female", "other"}

(* "unknown" stands for every string that is no key of activity_factors *)
ActivityValues == {"sedentary", "light", "moderate", "active", "very_active", "unknown"}

(* "other" stands for every string that is none of the three goals *)
GoalValues == {"maintain", "lose", "gain", "other"}

(* tdee handed to pretty_print_results directly: 0, 1/12800, 500 kcal steps *)
TdeeInputs == {1} \cup {6400000 * k : k \in 0..MaxTdeeSteps}

(* protein_g_per_day handed to pretty_print_results directly: 100 g steps *)
ProteinInputs == {1} \cup {1000 * k : k \in 0..MaxProteinSteps}

\* ------------------------------------------------------------ EnergyModel

(* calc_bmr with the female constant mistyped. *)
calc_bmr_offset(sex, weight, height, age) ==
    IF sex = "male"
    THEN 40 * weight + 25 * height - 80 * age + 80
    ELSE 40 * weight + 25 * height - 80 * age - 2416

(* 10*weight + 6.25*height - 5*age + 5 (male) or - 161 (any other sex),    *)
(* in sixteenths of a kcal.                                                *)
calc_bmr(sex, weight, height, age) ==
    IF sex = "male"
    THEN 40 * weight + 25 * height - 80 * age + 80
    ELSE 40 * weight + 25 * height - 80 * age - 2576

(* The dictionary activity_factors, in fortieths. *)
activity_factors ==
    [a \in {"sedentary", "light", "moderate", "active", "very_active"} |->
        CASE a = "sedentary" -> 48
          [] a = "light" -> 55
          [] a = "moderate" -> 62
          [] a = "active" -> 69
          [] a = "very_active" -> 76]

(* calc_tdee with the deficit of "lose" taken as 20% instead of 15%. *)
calc_tdee_deficit(bmr_, activity, goal) ==
    LET factor == IF activity \in DOMAIN activity_factors
                  THEN activity_factors[activity] ELSE 55
        t == bmr_ * factor
    IN  IF goal = "lose" THEN t * 16
        ELSE IF goal = "gain" THEN t * 22
        ELSE t * 20

(* calc_tdee with the goal adjustment subtracted from, not multiplied      *)
(* into, the expenditure (a fixed 500 kcal deficit for "lose").            *)
calc_tdee_fixed_deficit(bmr_, activity, goal) ==
    LET factor == IF activity \in DOMAIN activity_factors
                  THEN activity_factors[activity] ELSE 55
        t == bmr_ * factor
    IN  IF goal = "lose" THEN t * 20 - 6400000
        ELSE IF goal = "gain" THEN t * 22
        ELSE t * 20

(* calc_tdee with "light" looked up as 1.35 instead of 1.375. *)
calc_tdee_light(bmr_, activity, goal) ==
    LET factor == IF activity \in DOMAIN activity_factors /\ activity # "light"
                  THEN activity_factors[activity] ELSE 54
        t == bmr_ * factor
    IN  IF goal = "lose" THEN t * 17
        ELSE IF goal = "gain" THEN t * 22
        ELSE t * 20

(* bmr * activity_factors.get(activity, 1.375), then * 0.85 for "lose",    *)
(* * 1.10 for "gain", unchanged for every other goal; in 1/12800 kcal.     *)
calc_tdee(bmr_, activity, goal) ==
    LET factor == IF activity \in DOMAIN activity_factors
                  THEN activity_factors[activity] ELSE 55
        t == bmr_ * factor
    IN  IF goal = "lose" THEN t * 17
        ELSE IF goal = "gain" THEN t * 22
        ELSE t * 20

\* ------------------------------------------------------- MacroPartitioner

(* round(n / d, 0) for n >= 0, d > 0: the nearest integer.  At an exact    *)
(* tie the double that Python rounds may lie on either side of the tie     *)
(* (0.8 + 0.3 and 1.2 + 0.2 are not exact), so both neighbours are         *)
(* possible results.                                                       *)
round(n, d) ==
    IF 2 * (n % d) < d THEN {n \div d}
    ELSE IF 2 * (n % d) > d THEN {(n \div d) + 1}
    ELSE {n \div d, (n \div d) + 1}

(* base_protein in tenths of a g/kg. *)
base_protein(activity, goal) ==
    LET b0 == IF activity \in {"moderate", "active", "very_active"} THEN 12 ELSE 8
        b1 == IF goal = "gain" THEN b0 + 3 ELSE b0
    IN  IF goal = "lose" THEN b1 + 2 ELSE b1

(* calc_macros: the set of dictionaries it can return (one, except at a    *)
(* rounding tie).  base_protein * weight is in fortieths of a gram.        *)
calc_macros(weight, activity, goal) ==
    { [protein_g_per_day |-> p, protein_g_per_kg |-> r] :
      p \in round(base_protein(activity, goal) * weight, 4),
      r \in round(10 * base_protein(activity, goal), 1) }

\* ----------------------------------------------------- MicronutrientTable

(* Assign that overwrites the value alone and keeps the unit and the note  *)
(* of an entry that is already there.                                      *)
Assign_value_only(d, k, v) ==
    [x \in (DOMAIN d) \cup {k} |->
        IF x = k THEN (IF k \in DOMAIN d THEN <<v[1], d[k][2], d[k][3]>> ELSE v)
        ELSE d[x]]

(* d[k] = v on a dictionary d: the key is added when it is absent. *)
Assign(d, k, v) == [x \in (DOMAIN d) \cup {k} |-> IF x = k THEN v ELSE d[x]]

(* The assignments d[k] = v of a block, in the order of the source; items  *)
(* is a sequence of <<key, (value, unit, note)>>.                          *)
RECURSIVE AssignAll(_, _)
AssignAll(d, items) ==
    IF items = << >> THEN d
    ELSE AssignAll(Assign(d, items[1][1], items[1][2]), Tail(items))

(* The vitamins assigned when sex == "male". *)
male_vitamins ==
    << <<"Vitamin A", <<9000, "µg RAE", "Adult male RDA">> >>,
       <<"Vitamin C", <<900, "mg", "">> >>,
       <<"Vitamin D", <<150, "µg (600 IU)", "">> >>,
       <<"Vitamin E", <<150, "mg", "">> >>,
       <<"Vitamin K", <<1200, "µg", "">> >>,
       <<"Thiamin (B1)", <<12, "mg", "">> >>,
       <<"Riboflavin (B2)", <<13, "mg", "">> >>,
       <<"Niacin (B3)", <<160, "mg NE", "">> >>,
       <<"Vitamin B6", <<13, "mg", "may increase with age">> >>,
       <<"Folate (B9)", <<4000, "µg DFE", "">> >>,
       <<"Vitamin B12", <<24, "µg", "">> >>,
       <<"Pantothenic acid (B5)", <<50, "mg", "">> >>,
       <<"Biotin (B7)", <<300, "µg", "">> >> >>

(* The vitamins assigned for every other sex. *)
female_vitamins ==
    << <<"Vitamin A", <<7000, "µg RAE", "Adult female RDA">> >>,
       <<"Vitamin C", <<750, "mg", "">> >>,
       <<"Vitamin D", <<150, "µg (600 IU)", "">> >>,
       <<"Vitamin E", <<150, "mg", "">> >>,
       <<"Vitamin K", <<900, "µg", "">> >>,
       <<"Thiamin (B1)", <<11, "mg", "">> >>,
       <<"Riboflavin (B2)", <<11, "mg", "">> >>,
       <<"Niacin (B3)", <<140, "mg NE", "">> >>,
       <<"Vitamin B6", <<13, "mg", "">> >>,
       <<"Folate (B9)", <<4000, "µg DFE", "">> >>,
       <<"Vitamin B12", <<24, "µg", "">> >>,
       <<"Pantothenic acid (B5)", <<50, "mg", "">> >>,
       <<"Biotin (B7)", <<300, "µg", "">> >> >>

(* The minerals assigned when sex == "male". *)
male_minerals ==
    << <<"Calcium", <<10000, "mg", "Adults 19-50">> >>,
       <<"Iron", <<80, "mg", "Men">> >>,
       <<"Magnesium", <<4000, "mg", "Adult male">> >>,
       <<"Phosphorus", <<7000, "mg", "">> >>,
       <<"Potassium", <<34000, "mg", "AI">> >>,
       <<"Sodium", <<15000, "mg", "AI (upper limits higher)">> >>,
       <<"Zinc", <<110, "mg", "">> >>,
       <<"Copper", <<9, "mg", "">> >>,
       <<"Manganese", <<23, "mg", "">> >>,
       <<"Selenium", <<550, "µg", "">> >>,
       <<"Chromium", <<350, "µg", "">> >>,
       <<"Iodine", <<1500, "µg", "">> >>,
       <<"Fluoride", <<40, "mg", "AI">> >> >>

(* The minerals assigned for every other sex. *)
female_minerals ==
    << <<"Calcium", <<10000, "mg", "Adults 19-50">> >>,
       <<"Iron", <<180, "mg", "Women of reproductive age">> >>,
       <<"Magnesium", <<3100, "mg", "Adult female">> >>,
       <<"Phosphorus", <<7000, "mg", "">> >>,
       <<"Potassium", <<26000, "mg", "AI">> >>,
       <<"Sodium", <<15000, "mg", "AI (upper limits higher)">> >>,
       <<"Zinc", <<80, "mg", "">> >>,
       <<"Copper", <<9, "mg", "">> >>,
       <<"Manganese", <<18, "mg", "">> >>,
       <<"Selenium", <<550, "µg", "">> >>,
       <<"Chromium", <<250, "µg", "">> >>,
       <<"Iodine", <<1500, "µg", "">> >>,
       <<"Fluoride", <<30, "mg", "AI">> >> >>

(* The assignments made when menstruating and sex == "female". *)
menstruating_adjustment ==
    << <<"Iron", <<180, "mg", "Increased due to menstrual losses">> >> >>

(* pregnant_adjustment with the folate key misspelt. *)
pregnant_adjustment_typo ==
    << <<"Folate", <<6000, "µg DFE", "Pregnancy increased need">> >>,
       <<"Iron", <<270, "mg", "Pregnancy increased need">> >>,
       <<"Calcium", <<10000, "mg", "Pregnancy recommendation">> >>,
       <<"Vitamin D", <<150, "µg (600 IU)", "May be increased based on status">> >>,
       <<"Iodine", <<2200, "µg", "Pregnancy increased need">> >> >>

(* The assignments made when pregnant and sex == "female". *)
pregnant_adjustment ==
    << <<"Folate (B9)", <<6000, "µg DFE", "Pregnancy increased need">> >>,
       <<"Iron", <<270, "mg", "Pregnancy increased need">> >>,
       <<"Calcium", <<10000, "mg", "Pregnancy recommendation">> >>,
       <<"Vitamin D", <<150, "µg (600 IU)", "May be increased based on status">> >>,
       <<"Iodine", <<2200, "µg", "Pregnancy increased need">> >> >>

(* The assignments made when breastfeeding and sex == "female". *)
breastfeeding_adjustment ==
    << <<"Folate (B9)", <<5000, "µg DFE", "Lactation increased need">> >>,
       <<"Iron", <<90, "mg", "Postpartum needs lower than pregnancy">> >>,
       <<"Vitamin D", <<150, "µg (600 IU)", "">> >>,
       <<"Iodine", <<2900, "µg", "Lactation increased need">> >> >>

(* base_micronutrient_table with the breastfeeding block placed before     *)
(* the pregnancy block.                                                    *)
base_micronutrient_table_bf_first(sex, age, menstruating, pregnant, breastfeeding) ==
    LET d1 == AssignAll(<< >>, IF sex = "male" THEN male_vitamins ELSE female_vitamins)
        d2 == AssignAll(d1, IF sex = "male" THEN male_minerals ELSE female_minerals)
        d3 == IF menstruating /\ sex = "female"
              THEN AssignAll(d2, menstruating_adjustment) ELSE d2
        d4 == IF breastfeeding /\ sex = "female"
              THEN AssignAll(d3, breastfeeding_adjustment) ELSE d3
    IN  IF pregnant /\ sex = "female"
        THEN AssignAll(d4, pregnant_adjustment) ELSE d4

(* base_micronutrient_table with the menstruation block placed after the   *)
(* pregnancy block.                                                        *)
base_micronutrient_table_mens_late(sex, age, menstruating, pregnant, breastfeeding) ==
    LET d1 == AssignAll(<< >>, IF sex = "male" THEN male_vitamins ELSE female_vitamins)
        d2 == AssignAll(d1, IF sex = "male" THEN male_minerals ELSE female_minerals)
        d3 == IF pregnant /\ sex = "female"
              THEN AssignAll(d2, pregnant_adjustment) ELSE d2
        d4 == IF menstruating /\ sex = "female"
              THEN AssignAll(d3, menstruating_adjustment) ELSE d3
    IN  IF breastfeeding /\ sex = "female"
        THEN AssignAll(d4, breastfeeding_adjustment) ELSE d4

(* base_micronutrient_table with the adjustments guarded by the test that  *)
(* selects the base table (sex != "male").                                 *)
base_micronutrient_table_not_male(sex, age, menstruating, pregnant, breastfeeding) ==
    LET d1 == AssignAll(<< >>, IF sex = "male" THEN male_vitamins ELSE female_vitamins)
        d2 == AssignAll(d1, IF sex = "male" THEN male_minerals ELSE female_minerals)
        d3 == IF menstruating /\ sex # "male"
              THEN AssignAll(d2, menstruating_adjustment) ELSE d2
        d4 == IF pregnant /\ sex # "male"
              THEN AssignAll(d3, pregnant_adjustment) ELSE d3
    IN  IF breastfeeding /\ sex # "male"
        THEN AssignAll(d4, breastfeeding_adjustment) ELSE d4

(* base_micronutrient_table(sex, age, menstruating, pregnant,              *)
(* breastfeeding): d = {}, the vitamins and the minerals of the sex, then  *)
(* the three adjustments in the order of the source.  age is not read.     *)
base_micronutrient_table(sex, age, menstruating, pregnant, breastfeeding) ==
    LET d1 == AssignAll(<< >>, IF sex = "male" THEN male_vitamins ELSE female_vitamins)
        d2 == AssignAll(d1, IF sex = "male" THEN male_minerals ELSE female_minerals)
        d3 == IF menstruating /\ sex = "female"
              THEN AssignAll(d2, menstruating_adjustment) ELSE d2
        d4 == IF pregnant /\ sex = "female"
              THEN AssignAll(d3, pregnant_adjustment) ELSE d3
    IN  IF breastfeeding /\ sex = "female"
        THEN AssignAll(d4, breastfeeding_adjustment) ELSE d4

\* ------------------------------------------------------------- rendering

(* Python's max(a, b): the first argument unless the second is greater. *)
max(a, b) == IF b > a THEN b ELSE a

(* pretty_print_results without the clamp of carbs_g at 0. *)
pretty_print_results_unclamped(tdee_, macros_) ==
    LET fat_kcal == tdee_ * 3
        carbs_kcal == tdee_ * 10 - macros_.protein_g_per_day * 4 * 12800 - fat_kcal
    IN  [fat_kcal |-> fat_kcal,
         fat_g |-> fat_kcal,
         carbs_kcal |-> carbs_kcal,
         carbs_g |-> carbs_kcal]

(* The fat and carbohydrate figures pretty_print_results computes from     *)
(* tdee and macros before printing them:                                   *)
(*   fat_kcal = tdee * 0.30, fat_g = fat_kcal / 9,                         *)
(*   carbs_kcal = tdee - protein_g_per_day * 4 - fat_kcal,                 *)
(*   carbs_g = max(0, carbs_kcal / 4).                                     *)
pretty_print_results(tdee_, macros_) ==
    LET fat_kcal == tdee_ * 3
        carbs_kcal == tdee_ * 10 - macros_.protein_g_per_day * 4 * 12800 - fat_kcal
    IN  [fat_kcal |-> fat_kcal,
         fat_g |-> fat_kcal,
         carbs_kcal |-> carbs_kcal,
         carbs_g |-> max(0, carbs_kcal)]

\* ---------------------------------------------------------- input layer

(* input_or_default for one prompt.  kind is what was typed: "empty"       *)
(* (only white space), "invalid" (cast raises) or "value" (cast returns    *)
(* v).  Every prompt modelled here has a default that is not None.         *)
input_or_default(kind, v, default) == IF kind = "value" THEN v ELSE default

(* What can be typed at the sex and the yes/no prompts. *)
TypedSex == {"male", " Male", "female", "FEMALE ", "other"}

TypedYesNo == {"yes", " YES", "no", "maybe"}

(* str.strip().lower() on the strings that can be typed. *)
strip_lower(v) ==
    CASE v = " Male" -> "male"
      [] v = "FEMALE " -> "female"
      [] v = " YES" -> "yes"
      [] OTHER -> v

AnswerKinds == {"empty", "invalid", "value"}

(* A str prompt never raises: what is typed is empty or a value. *)
StrAnswerKinds == {"empty", "value"}

(* What input_or_default can return at a prompt. *)
Answers(kinds, typed, default) ==
    {input_or_default(k, v, default) : k \in kinds, v \in typed}

\* ------------------------------------------------------------ the program

Profiles ==
    [sex : SexValues, age : Ages, weight : Weights, height : Heights,
     activity : ActivityValues, goal : GoalValues,
     menstruating : BOOLEAN, pregnant : BOOLEAN, breastfeeding : BOOLEAN]

(* main() before its first statement. *)
InitMain ==
    /\ pc = "get_user_data"
    /\ user = None
    /\ bmr = None
    /\ tdee = None
    /\ macros = None
    /\ micro = None
    /\ printed = None

(* The core functions composed as in main() on a profile handed over by    *)
(* any collector: every combination of arguments.                          *)
InitCore ==
    /\ pc = "calc_bmr"
    /\ user \in Profiles
    /\ bmr = None
    /\ tdee = None
    /\ macros = None
    /\ micro = None
    /\ printed = None

(* pretty_print_results called on its own, on any tdee >= 0 and any        *)
(* protein >= 0; the arguments it only prints are left out.                *)
InitPrint ==
    /\ pc = "call_pretty_print_results"
    /\ user = None
    /\ bmr = None
    /\ tdee \in TdeeInputs
    /\ macros \in [protein_g_per_day : ProteinInputs, protein_g_per_kg : {80}]
    /\ micro = None
    /\ printed = None

Init == InitMain \/ InitCore \/ InitPrint

(* user = get_user_data(): the reproductive questions are asked only when  *)
(* sex == "female".  body_fat and notes are read by no calculation and     *)
(* are left out.                                                           *)
GetUserData ==
    /\ pc = "get_user_data"
    /\ \E sex \in {strip_lower(v) : v \in Answers(StrAnswerKinds, TypedSex, "male")},
          age \in Answers(AnswerKinds, Ages, 30),
          weight \in Answers(AnswerKinds, Weights, 280),
          height \in Answers(AnswerKinds, Heights, 700),
          activity \in Answers(StrAnswerKinds, ActivityValues, "light"),
          goal \in Answers(StrAnswerKinds, GoalValues, "maintain"),
          m \in {strip_lower(v) : v \in Answers(StrAnswerKinds, TypedYesNo, "yes")},
          p \in {strip_lower(v) : v \in Answers(StrAnswerKinds, TypedYesNo, "no")},
          b \in {strip_lower(v) : v \in Answers(StrAnswerKinds, TypedYesNo, "no")} :
        user' = [sex |-> sex,
                 age |-> age,
                 weight |-> weight,
                 height |-> height,
                 activity |-> activity,
                 goal |-> goal,
                 menstruating |-> (sex = "female" /\ m = "yes"),
                 pregnant |-> (sex = "female" /\ p = "yes"),
                 breastfeeding |-> (sex = "female" /\ b = "yes")]
    /\ pc' = "calc_bmr"
    /\ UNCHANGED <<bmr, tdee, macros, micro, printed>>

(* bmr = calc_bmr(user['sex'], user['weight'], user['height'], user['age']) *)
CalcBmr ==
    /\ pc = "calc_bmr"
    /\ bmr' = calc_bmr(user.sex, user.weight, user.height, user.age)
    /\ pc' = "calc_tdee"
    /\ UNCHANGED <<user, tdee, macros, micro, printed>>

(* tdee = calc_tdee(bmr, user['activity'], user['goal']) *)
CalcTdee ==
    /\ pc = "calc_tdee"
    /\ tdee' = calc_tdee(bmr, user.activity, user.goal)
    /\ pc' = "calc_macros"
    /\ UNCHANGED <<user, bmr, macros, micro, printed>>

(* macros = calc_macros(user['weight'], user['activity'], user['goal']) *)
CalcMacros ==
    /\ pc = "calc_macros"
    /\ macros' \in calc_macros(user.weight, user.activity, user.goal)
    /\ pc' = "base_micronutrient_table"
    /\ UNCHANGED <<user, bmr, tdee, micro, printed>>

(* micro = base_micronutrient_table(user['sex'], user['age'], ...) *)
BaseMicronutrientTable ==
    /\ pc = "base_micronutrient_table"
    /\ micro' = base_micronutrient_table(user.sex, user.age, user.menstruating,
                                         user.pregnant, user.breastfeeding)
    /\ pc' = "pretty_print_results"
    /\ UNCHANGED <<user, bmr, tdee, macros, printed>>

(* pretty_print_results(user, bmr, tdee, macros, micro), as the last       *)
(* statement of main() or called on its own.                               *)
PrettyPrintResults ==
    /\ pc \in {"pretty_print_results", "call_pretty_print_results"}
    /\ printed' = pretty_print_results(tdee, macros)
    /\ pc' = IF pc = "pretty_print_results" THEN "done" ELSE "returned"
    /\ UNCHANGED <<user, bmr, tdee, macros, micro>>

Next ==
    \/ GetUserData
    \/ CalcBmr
    \/ CalcTdee
    \/ CalcMacros
    \/ BaseMicronutrientTable
    \/ PrettyPrintResults

Spec == Init /\ [][Next]_vars

\* ----------------------------------------------------------- properties

HasBmr ==
    pc \in {"calc_tdee", "calc_macros", "base_micronutrient_table",
            "pretty_print_results", "done"}

HasTdee ==
    pc \in {"calc_macros", "base_micronutrient_table", "pretty_print_results", "done"}

HasMicro == pc \in {"pretty_print_results", "done"}

Printed == pc \in {"done", "returned"}

(* The entry of a block for key k (k is a key of the block). *)
Entry(items, k) == items[CHOOSE i \in 1..Len(items) : items[i][1] = k][2]

Keys(items) == {items[i][1] : i \in 1..Len(items)}

(* The table of the sex with no adjustment. *)
BaseTable(sex) == base_micronutrient_table(sex, 30, FALSE, FALSE, FALSE)

(* C1: carbohydrate g/day is never negative for any TDEE >= 0 and any      *)
(* protein g/day >= 0; for TDEE = 0 and protein = 300 g the clamp fires    *)
(* and the result is exactly 0.                                            *)
C1_CarbsNeverNegative ==
    (Printed /\ tdee >= 0 /\ macros.protein_g_per_day >= 0) =>
        /\ printed.carbs_g >= 0
        /\ (tdee = 0 /\ macros.protein_g_per_day = 3000) => printed.carbs_g = 0

C1_Witness ==
    /\ pc = "returned"
    /\ tdee = 0
    /\ macros.protein_g_per_day = 3000
    /\ printed.carbs_kcal < 0
    /\ printed.carbs_g = 0

(* C2: for sex "female" with pregnant and breastfeeding both true, every   *)
(* nutrient breastfeeding assigns ends with breastfeeding's triple: Iron   *)
(* 9 mg (not 27 mg), Folate 500 ug DFE, Iodine 290 ug.                     *)
C2_BreastfeedingWins ==
    (HasMicro /\ user.sex = "female" /\ user.pregnant /\ user.breastfeeding) =>
        /\ \A k \in Keys(breastfeeding_adjustment) :
              micro[k] = Entry(breastfeeding_adjustment, k)
        /\ micro["Iron"][1] = 90 /\ micro["Iron"][2] = "mg"
        /\ micro["Folate (B9)"][1] = 5000 /\ micro["Folate (B9)"][2] = "µg DFE"
        /\ micro["Iodine"][1] = 2900 /\ micro["Iodine"][2] = "µg"

C2_Witness ==
    /\ HasMicro
    /\ user.sex = "female" /\ user.pregnant /\ user.breastfeeding
    /\ micro["Iron"][1] = 90
    /\ micro["Calcium"][3] = "Pregnancy recommendation"

(* C3: for sex "female", pregnant true, breastfeeding false and either     *)
(* value of menstruating, Iron is (27, "mg", "Pregnancy increased need")   *)
(* and Folate (B9) is 600 ug DFE: the menstruating override never          *)
(* survives a pregnancy override.                                          *)
C3_PregnancyIron ==
    (HasMicro /\ user.sex = "female" /\ user.pregnant /\ ~user.breastfeeding) =>
        /\ micro["Iron"] = <<270, "mg", "Pregnancy increased need">>
        /\ micro["Folate (B9)"][1] = 6000
        /\ micro["Folate (B9)"][2] = "µg DFE"

C3_Witness ==
    /\ HasMicro
    /\ user.sex = "female" /\ user.pregnant /\ ~user.breastfeeding
    /\ user.menstruating
    /\ micro["Iron"] = <<270, "mg", "Pregnancy increased need">>

(* C4: the set of nutrient keys of the table is the same fixed set for     *)
(* every sex and every combination of the three flags: the male and the    *)
(* female key sets are equal and no override adds or removes a key.        *)
C4_FixedKeys ==
    HasMicro =>
        /\ DOMAIN micro = DOMAIN BaseTable("male")
        /\ DOMAIN micro = DOMAIN BaseTable("female")
        /\ DOMAIN micro = Keys(male_vitamins) \cup Keys(male_minerals)

C4_Witness ==
    /\ HasMicro
    /\ user.sex = "female" /\ user.menstruating /\ user.pregnant /\ user.breastfeeding
    /\ DOMAIN micro = DOMAIN BaseTable("male")

(* C5: for every bmr and every activity (recognized or not), the TDEE for  *)
(* goal "lose" is 0.85 times, and the TDEE for goal "gain" 1.10 times, the *)
(* TDEE for goal "maintain" (17/20 and 22/20, cross-multiplied).           *)
C5_GoalRatios ==
    HasTdee =>
        /\ user.goal = "lose" =>
              20 * tdee = 17 * calc_tdee(bmr, user.activity, "maintain")
        /\ user.goal = "gain" =>
              20 * tdee = 22 * calc_tdee(bmr, user.activity, "maintain")

C5_Witness ==
    /\ HasTdee
    /\ user.goal = "lose"
    /\ user.activity = "unknown"
    /\ tdee > 0
    /\ 20 * tdee = 17 * calc_tdee(bmr, user.activity, "maintain")

IsExampleProfile ==
    /\ user.sex = "male" /\ user.age = 30
    /\ user.weight = 280 /\ user.height = 700
    /\ user.activity = "light" /\ user.goal = "maintain"

(* C7 as stated: the example profile yields BMR = 1673.75 (= 6695/4), TDEE *)
(* = 2301.40625 (= 73645/32), protein rate 0.8 g/kg and protein 56.0       *)
(* g/day.                                                                  *)
C7_ExampleAsStated ==
    (pc = "done" /\ IsExampleProfile) =>
        /\ 4 * bmr = 6695 * 16
        /\ 32 * tdee = 73645 * 12800
        /\ macros.protein_g_per_kg = 80
        /\ macros.protein_g_per_day = 560

(* C7 amended: the example profile yields BMR = 1648.75 (= 6595/4), TDEE = *)
(* 2267.03125 (= 72545/32 = 1648.75 * 11/8), protein rate 0.8 g/kg and     *)
(* protein 56.0 g/day.                                                     *)
C7_ExampleAmended ==
    (pc = "done" /\ IsExampleProfile) =>
        /\ 4 * bmr = 6595 * 16
        /\ 32 * tdee = 72545 * 12800
        /\ 8 * tdee = 11 * 800 * bmr
        /\ macros.protein_g_per_kg = 80
        /\ macros.protein_g_per_day = 560

C7_Witness ==
    /\ pc = "done"
    /\ IsExampleProfile
    /\ 4 * bmr = 6595 * 16
    /\ macros.protein_g_per_day = 560

(* C8 as stated: the TDEE is >= 0 for every sex, activity and goal and all *)
(* strictly positive weight, height and age.                               *)
C8_TdeeNonNegativeAsStated ==
    (HasTdee /\ user.weight > 0 /\ user.height > 0 /\ user.age > 0) => tdee >= 0

(* C8 amended: the TDEE is >= 0 exactly when the BMR is, that is when      *)
(* 10*weight + 6.25*height - 5*age + 5 >= 0 for "male" and                 *)
(* 10*weight + 6.25*height - 5*age - 161 >= 0 for any other sex.           *)
C8_TdeeSignOfBmr ==
    HasTdee =>
        LET c == IF user.sex = "male" THEN 5 ELSE -161
        IN  tdee >= 0 <=>
              40 * user.weight + 25 * user.height - 80 * user.age + 16 * c >= 0

C8_Witness ==
    /\ HasTdee
    /\ user.weight > 0 /\ user.height > 0 /\ user.age > 0
    /\ user.goal = "lose"
    /\ tdee < 0

(* C9 as stated: the overrides apply for every sex value that selects the  *)
(* female base table (any value other than "male"), and for "male" the     *)
(* table is the same for all 8 flag combinations.                          *)
C9_OverridesByFallbackAsStated ==
    HasMicro =>
        /\ (user.sex # "male" /\ user.breastfeeding) =>
              micro["Iron"] = Entry(breastfeeding_adjustment, "Iron")
        /\ (user.sex # "male" /\ user.pregnant /\ ~user.breastfeeding) =>
              micro["Iron"] = Entry(pregnant_adjustment, "Iron")
        /\ (user.sex # "male" /\ user.menstruating /\ ~user.pregnant
                /\ ~user.breastfeeding) =>
              micro["Iron"] = Entry(menstruating_adjustment, "Iron")
        /\ user.sex = "male" => micro = BaseTable("male")

(* C9 amended: the overrides apply exactly when sex is the literal         *)
(* "female"; for every other sex value, "male" and the values that are     *)
(* neither "male" nor "female" (which select the female base table), the   *)
(* table is the same for all 8 flag combinations.                          *)
C9_OverridesOnlyForFemale ==
    HasMicro =>
        /\ (user.sex = "female" /\ user.breastfeeding) =>
              micro["Iron"] = Entry(breastfeeding_adjustment, "Iron")
        /\ (user.sex = "female" /\ user.pregnant /\ ~user.breastfeeding) =>
              micro["Iron"] = Entry(pregnant_adjustment, "Iron")
        /\ (user.sex = "female" /\ user.menstruating /\ ~user.pregnant
                /\ ~user.breastfeeding) =>
              micro["Iron"] = Entry(menstruating_adjustment, "Iron")
        /\ user.sex # "female" => micro = BaseTable(user.sex)

C9_Witness ==
    /\ HasMicro
    /\ user.sex = "other"
    /\ user.pregnant
    /\ micro["Iron"] = <<180, "mg", "Women of reproductive age">>

(* The nutrients some override assigns. *)
OverrideSet == {"Iron", "Folate (B9)", "Calcium", "Vitamin D", "Iodine"}

(* The blocks whose guard holds for the profile, in the order applied. *)
AppliedBlocks ==
    (IF user.menstruating /\ user.sex = "female" THEN <<menstruating_adjustment>> ELSE << >>)
    \o (IF user.pregnant /\ user.sex = "female" THEN <<pregnant_adjustment>> ELSE << >>)
    \o (IF user.breastfeeding /\ user.sex = "female" THEN <<breastfeeding_adjustment>> ELSE << >>)

(* C10: every nutrient outside the override set keeps the (value, unit,    *)
(* note) triple of the base table of the sex, and every overridden         *)
(* nutrient's whole triple is that of the last override applied to it,     *)
(* never a mix of base and override fields.                                *)
C10_OverrideFrame ==
    HasMicro =>
        \A k \in DOMAIN micro :
            LET hits == {i \in 1..Len(AppliedBlocks) : k \in Keys(AppliedBlocks[i])}
            IN  /\ k \notin OverrideSet => hits = {}
                /\ hits = {} => micro[k] = BaseTable(user.sex)[k]
                /\ hits # {} =>
                      micro[k] = Entry(AppliedBlocks[CHOOSE i \in hits :
                                                        \A j \in hits : j <= i], k)

C10_Witness ==
    /\ HasMicro
    /\ user.sex = "female" /\ user.pregnant /\ user.breastfeeding
    /\ micro["Calcium"] = <<10000, "mg", "Pregnancy recommendation">>
    /\ micro["Vitamin D"] = <<150, "µg (600 IU)", "">>
    /\ micro["Zinc"] = <<80, "mg", "">>

====
